---- MODULE Spec2Model ----
(***************************************************************************)
(* Model of quant_research/data_portal/hl_ctxs_to_parquet.py:              *)
(* split_asset_ctxs_by_coin_month, the streaming re-bucketer with its      *)
(* bounded LRU pool of Parquet writers.                                    *)
(*                                                                         *)
(* Spec is one call of it; SpecTwice is two calls in a row on the same      *)
(* directories; SpecCast is _cast_to_schema on any table; SpecSingle is     *)
(* split_asset_ctxs_by_coin_single.                                        *)
(*                                                                         *)
(* The run is one sequential pass; pc is its position in the code.  The    *)
(* input dataset is not fixed in advance: the scan draws it row by row.    *)
(* max_open_writers and row_group_size range over 1..bound: with           *)
(* max_open_writers <= 0 the first popitem on the empty OrderedDict raises *)
(* before any writer exists, and row_group_size <= 0 is no row-group size. *)
(***************************************************************************)
EXTENDS Integers, Sequences, FiniteSets, TLC

\* ---- bounds of the model ----
MaxRows == 3          \* rows the scan lets through in one run
MaxWriters == 2       \* largest max_open_writers tried
MaxRowGroup == 2      \* largest row_group_size tried
MaxCastRows == 1      \* rows of a table handed to _cast_to_schema on its own
MaxSingleRows == 2    \* rows of the dataset given to split_asset_ctxs_by_coin_single

\* ---- values ----
Null == "null"
NoFile == [exists |-> FALSE, rows |-> << >>]
Coins == {"BTC", "ETH"}
Dates == {"2024-01-15", "2024-02-03"}
Times == {"2024-01-15 09:30"}
Months == {"2024-01", "2024-02"}
Keys == Coins \X Months

\* A raw input row: coin, time and date may each be null.
Fundings == {"0.5"}
RawRows == [coin : Coins \cup {Null}, time : Times \cup {Null}, funding : Fundings,
            date : Dates \cup {Null}]

DateTypes == {"date32", "string"}

\* DEFAULT_SCHEMA, with funding standing for its ten float32 columns
TargetSchema == << [name |-> "time", type |-> "timestamp[ns]"],
                   [name |-> "coin", type |-> "string"],
                   [name |-> "funding", type |-> "float"],
                   [name |-> "date", type |-> "date32"] >>
TargetNames == {TargetSchema[i].name : i \in DOMAIN TargetSchema}

\* the schema of a dataset that has the target's columns, its date column of type ty
InputSchema(ty) ==
  [i \in DOMAIN TargetSchema |->
     IF TargetSchema[i].name = "date" THEN [name |-> "date", type |-> ty]
     ELSE TargetSchema[i]]

VARIABLES
  max_open_writers, row_group_size, overwrite,  \* configuration of the run
  in_dir_exists,   \* in_dir is a directory
  matched,         \* some file of in_dir matches file_glob
  out_dir_exists,  \* out_dir is a directory
  cast_in,         \* the table handed to _cast_to_schema when it is called on its own
  run,             \* 0 in a call on its own, 1 and 2 in the first and the second of
                   \* two calls in a row on the same directories
  first,           \* what the first call returned and left on disk
  batches,     \* the non-empty batches (their rows) the first call has read; in
               \* split_asset_ctxs_by_coin_single, the batches of the dataset
  replay,      \* the batches a second call, or split_asset_ctxs_by_coin_single,
               \* has still to read
  file_glob,        \* split_asset_ctxs_by_coin_single: its file_glob,
  required_non_null,  \* its required_non_null,
  tables_by_coin,   \* its dict tables_by_coin: sequence of [coin, parts], in
                    \* order of insertion,
  coin_files,       \* and the files out_dir/<coin>.parquet: [exists, rows]
  pc,          \* position in split_asset_ctxs_by_coin_month
  admitted,    \* rows the scan filter has let through so far
  rec_batch,   \* rows the scanner has collected for the next batch
  tbl,         \* current table [schema, rows]; a row maps column names to values
               \* and "id" to the row's identity
  coins,       \* coins of the batch still to be handled
  coin,        \* current coin
  c_tbl,       \* rows of the current coin
  months,      \* month string of each row of c_tbl
  uniq_months, \* months of the coin still to be handled
  m,           \* current month
  cm_tbl,      \* rows of the current (coin, month) sub-batch
  start,       \* offset of the next slice to write
  w0,          \* length of the write log when the sub-batch began
  writer,      \* handle returned by _writer_for
  writers,     \* the OrderedDict: sequence of [key, h], least recently used first
  handles,     \* every ParquetWriter created: [key, closes, failed]; failed marks a
               \* close call of the finally block that raised
  files,       \* out_dir/<coin>/<month>.parquet: [exists, rows]
  dirs,        \* coin directories under out_dir
  counts,      \* the dict counts
  written,     \* log of write_table calls: [h, key, rows]
  tick,        \* number of pool accesses so far
  accessed,    \* key -> tick of its most recent access (creation or fetch)
  error,       \* exception in flight, or Null
  closing,     \* list(writers.values()) still to close in the finally block
  outcome      \* what reached the caller: [kind, value], kind "none" while running

vars == << max_open_writers, row_group_size, overwrite, in_dir_exists, matched,
           out_dir_exists, cast_in, run, first, batches, replay, file_glob,
           required_non_null, tables_by_coin, coin_files, pc, admitted,
           rec_batch, tbl, coins, coin, c_tbl, months, uniq_months, m, cm_tbl, start,
           w0, writer, writers, handles, files, dirs, counts, written, tick,
           accessed, error, closing, outcome >>

config == << max_open_writers, row_group_size, overwrite, in_dir_exists, matched,
            out_dir_exists, cast_in, run, first, file_glob, required_non_null,
            tables_by_coin, coin_files >>
single == << file_glob, required_non_null, tables_by_coin, coin_files >>
scanv == << admitted, rec_batch, batches, replay >>
loopv == << tbl, coins, coin, c_tbl, months, uniq_months, m, cm_tbl, start, w0, writer >>
poolv == << writers, handles, tick, accessed >>
diskv == << files, dirs >>

\* ---- helpers ----
Min(a, b) == IF a < b THEN a ELSE b

\* pc.unique: distinct values in order of first appearance
RECURSIVE Unique(_)
Unique(s) ==
  IF s = << >> THEN << >>
  ELSE LET init == Unique(SubSeq(s, 1, Len(s) - 1))
           x == s[Len(s)]
       IN IF \E i \in 1..Len(init) : init[i] = x THEN init ELSE Append(init, x)

\* pc.equal: null if either side is null, else "true" or "false"
Equal(x, y) == IF x = Null \/ y = Null THEN Null ELSE IF x = y THEN "true" ELSE "false"

\* Table.filter with the default null_selection_behavior: a row is kept only
\* where the mask is true; false and null both drop it
RECURSIVE Filter(_, _)
Filter(rows, mask) ==
  IF rows = << >> THEN << >>
  ELSE LET rest == Filter(Tail(rows), Tail(mask))
       IN IF Head(mask) = "true" THEN << Head(rows) >> \o rest ELSE rest

\* Slice that takes its second argument for an end index, as in rows[a:b]
SliceToIndex(rows, offset, length) ==
  SubSeq(rows, offset + 1, Min(Len(rows), length))

\* Table.slice(offset, length)
Slice(rows, offset, length) ==
  SubSeq(rows, offset + 1, Min(Len(rows), offset + length))

\* the scan filter: coin.is_valid() & time.is_valid()
filt(r) == r.coin # Null /\ r.time # Null

\* ---- _cast_to_schema (lines 61-140) ----
Names(t) == {t.schema[i].name : i \in DOMAIN t.schema}
TypeOf(t, n) == t.schema[CHOOSE i \in DOMAIN t.schema : t.schema[i].name = n].type

\* _parse_timestamp_ns_from_str on one value: Z or a numeric offset is
\* stripped, four layouts are tried, a string that fits none gives null
ParseTimestamp(v) ==
  CASE v = "2024-01-15T09:30:00Z" -> "2024-01-15 09:30"
    [] v = "2024-01-15 09:30" -> "2024-01-15 09:30"
    [] OTHER -> Null

\* _parse_date32_from_str on one value: a time part is stripped, the rest is
\* read as YYYY-MM-DD, a string that does not fit gives null
ParseDate(v) ==
  CASE v = "2024-01-15" -> "2024-01-15"
    [] v = "2024-02-03" -> "2024-02-03"
    [] v = "2024-02-03T00:00:00" -> "2024-02-03"
    [] OTHER -> Null

\* pc.cast of one value, for the pairs of types that have a cast; a number
\* written as a string is read, any other string makes the cast raise
CastValue(from, to, v) ==
  CASE v = Null -> Null
    [] from = "timestamp[ns, UTC]" /\ to = "timestamp[ns]" -> v
    [] from = "large_string" /\ to = "string" -> v
    [] from = "double" /\ to = "float" -> v
    [] from = "string" /\ to = "float" -> IF v \in Fundings THEN v ELSE "raise"
    [] OTHER -> "raise"

\* pc.cast of a column [type, vals]: ok is false when the cast raises
Cast(c, to) ==
  LET vals == [i \in DOMAIN c.vals |-> CastValue(c.type, to, c.vals[i])]
      known == << c.type, to >> \in {<< "timestamp[ns, UTC]", "timestamp[ns]" >>,
                                      << "large_string", "string" >>,
                                      << "double", "float" >>,
                                      << "string", "float" >>}
  IN [ok |-> known /\ \A i \in DOMAIN vals : vals[i] # "raise", type |-> to, vals |-> vals]

\* lines 104-134: one target field from the input column c of that name
CastField(field, c) ==
  LET parsed ==
        IF field.type = "timestamp[ns]" /\ c.type = "string"
        THEN [type |-> "timestamp[ns]",
              vals |-> [i \in DOMAIN c.vals |-> ParseTimestamp(c.vals[i])]]
        ELSE IF field.type = "date32" /\ c.type = "string"
        THEN [type |-> "date32", vals |-> [i \in DOMAIN c.vals |-> ParseDate(c.vals[i])]]
        ELSE c
  IN IF parsed.type = field.type
     THEN [ok |-> TRUE, type |-> parsed.type, vals |-> parsed.vals]
     ELSE Cast(parsed, field.type)

\* the input column named n
ColumnOf(t, n) == [type |-> TypeOf(t, n), vals |-> [i \in DOMAIN t.rows |-> t.rows[i][n]]]

\* _cast_to_schema raises: some column present has no conversion to its field.
\* (In the generic branch the except clause retries through pc.if_else of the
\* column and nulls of the target type, which raises again for these types.)
CastRaises(t) ==
  \E k \in DOMAIN TargetSchema :
    /\ TargetSchema[k].name \in Names(t)
    /\ ~CastField(TargetSchema[k], ColumnOf(t, TargetSchema[k].name)).ok

\* _cast_to_schema that keeps only the target columns the input has
CastPresentOnly(t) ==
  [schema |-> SelectSeq(TargetSchema, LAMBDA f : f.name \in Names(t)),
   rows |-> [i \in DOMAIN t.rows |->
               [n \in (TargetNames \cap Names(t)) \cup {"id"} |->
                  IF n = "id" THEN t.rows[i].id
                  ELSE CastField(CHOOSE f \in {TargetSchema[k] : k \in DOMAIN TargetSchema} :
                                   f.name = n, ColumnOf(t, n)).vals[i]]]]

\* _cast_to_schema when it returns: the target's fields in the target's order,
\* each converted from the input column of its name or all null; the rows keep
\* their identity
_cast_to_schema(t) ==
  [schema |-> TargetSchema,
   rows |-> [i \in DOMAIN t.rows |->
               [n \in TargetNames \cup {"id"} |->
                  IF n = "id" THEN t.rows[i].id
                  ELSE IF n \in Names(t)
                  THEN CastField(CHOOSE f \in {TargetSchema[k] : k \in DOMAIN TargetSchema} :
                                   f.name = n, ColumnOf(t, n)).vals[i]
                  ELSE Null]]]

\* strftime("%Y-%m") of one date or timestamp; null stays null
MonthOf(v) ==
  CASE v = Null -> Null
    [] v = "2024-01-15" -> "2024-01"
    [] v = "2024-02-03" -> "2024-02"
    [] v = "2024-01-15 09:30" -> "2024-01"

\* _month_str: the month string of every value of a column
_month_str(col) == [i \in DOMAIN col |-> MonthOf(col[i])]

Column(rows, f) == [i \in DOMAIN rows |-> rows[i][f]]

\* lines 232-240: the column months are taken from
BaseDate(t) ==
  IF TypeOf(t, "date") # "date32" /\ ~(\E i \in DOMAIN t.rows : t.rows[i].date # Null)
  THEN Column(t.rows, "time")
  ELSE Column(t.rows, "date")

PoolKeys == {writers[i].key : i \in DOMAIN writers}
PoolIndex(k) == CHOOSE i \in DOMAIN writers : writers[i].key = k
Remove(s, i) == SubSeq(s, 1, i - 1) \o SubSeq(s, i + 1, Len(s))
OpenHandles == {h \in DOMAIN handles : handles[h].closes = 0}

\* the variables of a run before its first step
Fresh ==
  /\ tables_by_coin = << >>
  /\ admitted = 0
  /\ rec_batch = << >>
  /\ tbl = [schema |-> TargetSchema, rows |-> << >>]
  /\ coins = << >>
  /\ coin = Null
  /\ c_tbl = << >>
  /\ months = << >>
  /\ uniq_months = << >>
  /\ m = Null
  /\ cm_tbl = << >>
  /\ start = 0
  /\ w0 = 0
  /\ writer = 0
  /\ writers = << >>
  /\ handles = << >>
  /\ files = [k \in Keys |-> NoFile]
  /\ dirs = {}
  /\ counts = << >>
  /\ written = << >>
  /\ tick = 0
  /\ accessed = [k \in Keys |-> 0]
  /\ error = Null
  /\ closing = << >>
  /\ outcome = [kind |-> "none", value |-> Null]

\* ---- initial state: the call is made, nothing has run yet ----
\* Files can match only in a directory that exists.
Start(r) ==
  /\ max_open_writers \in 1..MaxWriters
  /\ row_group_size \in 1..MaxRowGroup
  /\ overwrite \in BOOLEAN
  /\ in_dir_exists \in BOOLEAN
  /\ matched \in BOOLEAN
  /\ matched => in_dir_exists
  /\ out_dir_exists \in BOOLEAN
  /\ cast_in = [schema |-> TargetSchema, rows |-> << >>]
  /\ run = r
  /\ first = [summary |-> << >>, files |-> [k \in Keys |-> NoFile], dirs |-> {}]
  /\ file_glob = "*.parquet"
  /\ required_non_null = {"coin", "time"}
  /\ coin_files = [c \in Coins |-> NoFile]
  /\ batches = << >>
  /\ replay = << >>
  /\ pc = "start"
  /\ Fresh

Init == Start(0)

\* The locals of the batch loop once they are dead (each is assigned again
\* before its next use): back to their initial values.
ResetLocals ==
  /\ tbl' = [schema |-> TargetSchema, rows |-> << >>]
  /\ coins' = << >>
  /\ coin' = Null
  /\ c_tbl' = << >>
  /\ months' = << >>
  /\ uniq_months' = << >>
  /\ m' = Null
  /\ cm_tbl' = << >>
  /\ start' = 0
  /\ w0' = 0
  /\ writer' = 0

\* Leave with the finally block closing every writer ever created, not only
\* those still in the pool
LeaveClosesAll(e) ==
  /\ error' = e
  /\ closing' = [i \in DOMAIN handles |-> i]
  /\ pc' = "finally"
  /\ rec_batch' = << >>
  /\ ResetLocals
  /\ UNCHANGED << config, admitted, batches, replay, poolv, diskv, counts, written,
                  outcome >>

\* ---- lines 257-265: the finally block, then return or re-raise ----
\* The try block is left, normally (e = Null) or by an exception e.  The finally
\* block takes list(writers.values()) and closes them one by one.
Leave(e) ==
  /\ error' = e
  /\ closing' = [i \in DOMAIN writers |-> writers[i].h]
  /\ pc' = "finally"
  /\ rec_batch' = << >>
  /\ ResetLocals
  /\ UNCHANGED << config, admitted, batches, replay, poolv, diskv, counts, written,
                  outcome >>

\* ---- _cast_to_schema called on its own, on any table ----
\* the types an input column of each name may have; bool has no cast to a
\* timestamp or a date
ColumnTypes(n) ==
  CASE n = "time" -> {"timestamp[ns]", "timestamp[ns, UTC]", "string", "bool"}
    [] n = "coin" -> {"string", "large_string"}
    [] n = "funding" -> {"float", "double", "string"}
    [] n = "date" -> DateTypes \cup {"bool"}
    [] n = "extra" -> {"int64"}

\* the values a column of a name and type may hold
ValuesOf(n, ty) ==
  CASE ty = "absent" -> {Null}
    [] ty = "bool" -> {"true"}
    [] ty = "int64" -> {"7"}
    [] n = "time" /\ ty = "string" -> {"2024-01-15T09:30:00Z", "n/a", Null}
    [] n = "time" -> Times \cup {Null}
    [] n = "coin" -> {"BTC", Null}
    [] n = "funding" /\ ty = "string" -> {"0.5", "abc"}
    [] n = "funding" -> Fundings \cup {Null}
    [] n = "date" /\ ty = "string" -> {"2024-02-03T00:00:00", "n/a"}
    [] n = "date" -> {"2024-01-15", Null}

\* every schema: each target column and one extra column present, in some
\* type, or absent; the columns come in another order than the target's
InputSchemas ==
  { SelectSeq(<< [name |-> "extra", type |-> e], [name |-> "date", type |-> d],
                 [name |-> "funding", type |-> f], [name |-> "coin", type |-> c],
                 [name |-> "time", type |-> t] >>,
              LAMBDA x : x.type # "absent") :
      e \in ColumnTypes("extra") \cup {"absent"},
      d \in ColumnTypes("date") \cup {"absent"},
      f \in ColumnTypes("funding") \cup {"absent"},
      c \in ColumnTypes("coin") \cup {"absent"},
      t \in ColumnTypes("time") \cup {"absent"} }

TypeOrAbsent(sch, n) ==
  IF \E i \in DOMAIN sch : sch[i].name = n
  THEN sch[CHOOSE i \in DOMAIN sch : sch[i].name = n].type
  ELSE "absent"

\* every row of a schema
RowsOf(sch) ==
  LET present == {sch[i].name : i \in DOMAIN sch}
      all == [extra : ValuesOf("extra", TypeOrAbsent(sch, "extra")),
              date : ValuesOf("date", TypeOrAbsent(sch, "date")),
              funding : ValuesOf("funding", TypeOrAbsent(sch, "funding")),
              coin : ValuesOf("coin", TypeOrAbsent(sch, "coin")),
              time : ValuesOf("time", TypeOrAbsent(sch, "time"))]
  IN { [n \in present \cup {"id"} |-> IF n = "id" THEN 0 ELSE r[n]] : r \in all }

\* the table of a schema and rows; a row's id is its position
TableOf(sch, rs) ==
  [schema |-> sch, rows |-> [i \in DOMAIN rs |-> [rs[i] EXCEPT !.id = i]]]

\* the input is any table of up to MaxCastRows rows
InitCast ==
  /\ max_open_writers = 1
  /\ row_group_size = 1
  /\ overwrite = TRUE
  /\ in_dir_exists = TRUE
  /\ matched = TRUE
  /\ out_dir_exists = TRUE
  /\ \E sch \in InputSchemas : \E k \in 0..MaxCastRows :
       \E rs \in [1..k -> RowsOf(sch)] : cast_in = TableOf(sch, rs)
  /\ run = 0
  /\ first = [summary |-> << >>, files |-> [k \in Keys |-> NoFile], dirs |-> {}]
  /\ file_glob = "*.parquet"
  /\ required_non_null = {"coin", "time"}
  /\ coin_files = [c \in Coins |-> NoFile]
  /\ batches = << >>
  /\ replay = << >>
  /\ pc = "cast"
  /\ Fresh

\* tbl = _cast_to_schema(tbl, target_schema): the table comes back, or an
\* exception
CastTable ==
  /\ pc = "cast"
  /\ IF CastRaises(cast_in)
     THEN /\ error' = "CastError"
          /\ outcome' = [kind |-> "raise", value |-> "CastError"]
          /\ pc' = "done"
          /\ UNCHANGED tbl
     ELSE /\ tbl' = _cast_to_schema(cast_in)
          /\ pc' = "cast_done"
          /\ UNCHANGED << error, outcome >>
  /\ UNCHANGED << config, scanv, coins, coin, c_tbl, months, uniq_months, m, cm_tbl,
                  start, w0, writer, poolv, diskv, counts, written, closing >>

NextCast == CastTable

SpecCast == InitCast /\ [][NextCast]_vars

\* ---- lines 158-182: the checks of the call ----
\* ConfigError with the two checks in the other order
ConfigErrorFilesFirst ==
  /\ pc = "start"
  /\ ~in_dir_exists \/ ~matched
  /\ out_dir_exists' = TRUE
  /\ error' = IF ~matched THEN "NoFilesMatched" ELSE "InputDirMissing"
  /\ outcome' = [kind |-> "raise", value |-> error']
  /\ pc' = "done"
  /\ UNCHANGED << max_open_writers, row_group_size, overwrite, in_dir_exists, matched,
                  cast_in, run, first, single, scanv, loopv, poolv, diskv, counts, written, closing >>

\* lines 160-172: out_dir is made, the glob is expanded (to nothing when in_dir
\* does not exist), and the call raises FileNotFoundError: for the missing
\* directory first, else for the empty match.  This is before the try block.
ConfigError ==
  /\ pc = "start"
  /\ ~in_dir_exists \/ ~matched
  /\ out_dir_exists' = TRUE
  /\ error' = IF ~in_dir_exists THEN "InputDirMissing" ELSE "NoFilesMatched"
  /\ outcome' = [kind |-> "raise", value |-> error']
  /\ pc' = "done"
  /\ UNCHANGED << max_open_writers, row_group_size, overwrite, in_dir_exists, matched,
                  cast_in, run, first, single, scanv, loopv, poolv, diskv, counts, written, closing >>

\* Configure that goes on with the counts it finds
ConfigureKeepsCounts ==
  /\ pc = "start"
  /\ in_dir_exists /\ matched
  /\ out_dir_exists' = TRUE
  /\ writers' = << >>
  /\ pc' = "scan"
  /\ UNCHANGED << max_open_writers, row_group_size, overwrite, in_dir_exists, matched,
                  cast_in, run, first, single, scanv, loopv, handles, tick, accessed, diskv,
                  counts, written, error, closing, outcome >>

\* lines 158-182 when both checks pass: out_dir is made, the dataset and the
\* scanner are built, writers and counts are created empty
Configure ==
  /\ pc = "start"
  /\ in_dir_exists /\ matched
  /\ out_dir_exists' = TRUE
  /\ writers' = << >>
  /\ counts' = << >>
  /\ pc' = "scan"
  /\ UNCHANGED << max_open_writers, row_group_size, overwrite, in_dir_exists, matched,
                  cast_in, run, first, single, scanv, loopv, handles, tick, accessed, diskv,
                  written, error, closing, outcome >>

\* ---- the scan (lines 177-178, 216) ----
\* the scanner reads one more raw row; the filter decides whether it joins the
\* batch under construction (a row it rejects leaves no trace).  A row's id is
\* its position among the rows let through.
ScanRow ==
  /\ pc = "scan"
  /\ run # 2
  /\ admitted < MaxRows
  /\ \E r \in RawRows :
       IF filt(r)
       THEN /\ rec_batch' = Append(rec_batch,
                  [id |-> admitted + 1, coin |-> r.coin, time |-> r.time,
                   funding |-> r.funding, date |-> r.date])
            /\ admitted' = admitted + 1
       ELSE UNCHANGED << rec_batch, admitted >>
  /\ UNCHANGED << config, batches, replay, pc, loopv, poolv, diskv, counts, written,
                  error, closing, outcome >>

\* ---- lines 226-247: the nested loops over coins and months ----
\* Run the two for-loops from where they stand up to the next non-empty
\* (coin, month) sub-batch, or to their end.  t is the batch, cs the coins still
\* to come, c/ct/ms the current coin with its rows and their months, ums the
\* months of that coin still to come.
RECURSIVE NextGroup(_, _, _, _, _, _)
NextGroup(t, cs, c, ct, ms, ums) ==
  IF ums # << >>
  THEN LET mm == Head(ums)
           cm == Filter(ct, [i \in DOMAIN ms |-> Equal(ms[i], mm)])
       IN IF Len(cm) = 0
          THEN NextGroup(t, cs, c, ct, ms, Tail(ums))
          ELSE [found |-> TRUE, coins |-> cs, coin |-> c, c_tbl |-> ct, months |-> ms,
                uniq_months |-> Tail(ums), m |-> mm, cm_tbl |-> cm]
  ELSE IF cs # << >>
  THEN LET c2 == Head(cs)
           ct2 == Filter(t.rows, [i \in DOMAIN t.rows |-> Equal(t.rows[i].coin, c2)])
           ms2 == _month_str(BaseDate([schema |-> t.schema, rows |-> ct2]))
       IN IF Len(ct2) = 0
          THEN NextGroup(t, Tail(cs), c2, ct2, ms, << >>)
          ELSE NextGroup(t, Tail(cs), c2, ct2, ms2, Unique(ms2))
  ELSE [found |-> FALSE]

\* take the loops to their next sub-batch: _writer_for is called for it, or the
\* batch is finished and the scan goes on
Advance(t, cs, c, ct, ms, ums) ==
  LET g == NextGroup(t, cs, c, ct, ms, ums) IN
    IF g.found
    THEN /\ tbl' = t
         /\ coins' = g.coins
         /\ coin' = g.coin
         /\ c_tbl' = g.c_tbl
         /\ months' = g.months
         /\ uniq_months' = g.uniq_months
         /\ m' = g.m
         /\ cm_tbl' = g.cm_tbl
         /\ start' = 0
         /\ w0' = Len(written)
         /\ writer' = 0
         /\ pc' = "writer_for"
    ELSE /\ ResetLocals
         /\ pc' = "scan"

\* ---- lines 216-225: next batch, normalize, skip it if empty, list the coins ----
\* What to_batches() may yield next: the rows collected (there may be none),
\* with the date column in one of its possible types.  In the second of two
\* calls on the same dataset: the rows the first call got at this point.
Offered ==
  IF run # 2
  THEN {[schema |-> InputSchema(ty), rows |-> rec_batch] : ty \in DateTypes}
  ELSE IF replay # << >>
  THEN {[schema |-> InputSchema(ty), rows |-> Head(replay)] : ty \in DateTypes}
  ELSE {}

\* the loops start on the cast table
NextBatch ==
  /\ pc = "scan"
  /\ \E b \in Offered :
       /\ LET t == _cast_to_schema(b) IN
            IF Len(t.rows) = 0
            THEN UNCHANGED << pc, loopv >>
            ELSE Advance(t, Unique(Column(t.rows, "coin")), coin, c_tbl, months, << >>)
       /\ batches' = IF run = 1 /\ b.rows # << >> THEN Append(batches, b.rows) ELSE batches
       /\ admitted' = IF run = 2 THEN admitted + Len(b.rows) ELSE admitted
  /\ rec_batch' = << >>
  /\ replay' = IF run = 2 THEN Tail(replay) ELSE replay
  /\ UNCHANGED << config, poolv, diskv, counts, written, error, closing, outcome >>

\* to_batches() is exhausted: the try block ends normally
EndOfScan ==
  /\ pc = "scan"
  /\ rec_batch = << >>
  /\ replay = << >>
  /\ Leave(Null)

\* reading a batch fails
ScanError ==
  /\ pc = "scan"
  /\ Leave("ReadError")

\* the batch read has a column with no defined conversion: the cast raises
CastError ==
  /\ pc = "scan"
  /\ Leave("CastError")

\* deriving the months of a coin's rows fails: on the first coin of a batch, or
\* on moving to the next coin after a sub-batch
MonthError ==
  /\ \/ pc = "scan" /\ rec_batch # << >>
     \/ /\ pc = "count"
        /\ coins # << >>
        /\ ~NextGroup(tbl, << >>, coin, c_tbl, months, uniq_months).found
  /\ Leave("MonthError")

\* ---- _writer_for (lines 184-213) ----
\* WriterForHit without the move_to_end
WriterForHitNoTouch ==
  /\ pc = "writer_for"
  /\ << coin, m >> \in PoolKeys
  /\ writer' = writers[PoolIndex(<< coin, m >>)].h
  /\ tick' = tick + 1
  /\ accessed' = [accessed EXCEPT ![<< coin, m >>] = tick + 1]
  /\ start' = 0
  /\ pc' = "write"
  /\ UNCHANGED << config, scanv, tbl, coins, coin, c_tbl, months, uniq_months, m, cm_tbl,
                  w0, writers, handles, diskv, counts, written, error, closing, outcome >>

\* lines 185-189: the key is in the pool: move_to_end and return its writer
WriterForHit ==
  /\ pc = "writer_for"
  /\ << coin, m >> \in PoolKeys
  /\ LET i == PoolIndex(<< coin, m >>) IN
       /\ writers' = Append(Remove(writers, i), writers[i])
       /\ writer' = writers[i].h
  /\ tick' = tick + 1
  /\ accessed' = [accessed EXCEPT ![<< coin, m >>] = tick + 1]
  /\ start' = 0
  /\ pc' = "write"
  /\ UNCHANGED << config, scanv, tbl, coins, coin, c_tbl, months, uniq_months, m, cm_tbl,
                  w0, handles, diskv, counts, written, error, closing, outcome >>

\* WriterForMiss that forgets the overwrite policy
WriterForMissKeepsFile ==
  /\ pc = "writer_for"
  /\ << coin, m >> \notin PoolKeys
  /\ dirs' = dirs \cup {coin}
  /\ pc' = "evict"
  /\ UNCHANGED << config, scanv, loopv, poolv, files, counts, written, error, closing,
                  outcome >>

\* lines 191-196: the key is absent: make the coin directory, and with overwrite
\* delete a file already at the path
WriterForMiss ==
  /\ pc = "writer_for"
  /\ << coin, m >> \notin PoolKeys
  /\ dirs' = dirs \cup {coin}
  /\ files' = IF overwrite /\ files[<< coin, m >>].exists
              THEN [files EXCEPT ![<< coin, m >>] = NoFile]
              ELSE files
  /\ pc' = "evict"
  /\ UNCHANGED << config, scanv, loopv, poolv, counts, written, error, closing, outcome >>

\* Evict with the capacity test off by one (> instead of >=)
EvictOffByOne ==
  /\ pc = "evict"
  /\ IF Len(writers) > max_open_writers
     THEN /\ writers' = Tail(writers)
          /\ handles' = [handles EXCEPT ![Head(writers).h].closes = @ + 1]
     ELSE UNCHANGED << writers, handles >>
  /\ pc' = "open"
  /\ UNCHANGED << config, scanv, loopv, tick, accessed, diskv, counts, written, error,
                  closing, outcome >>

\* Evict with popitem() left at its default last=True: the newest entry goes
EvictMRU ==
  /\ pc = "evict"
  /\ IF Len(writers) >= max_open_writers
     THEN /\ writers' = SubSeq(writers, 1, Len(writers) - 1)
          /\ handles' = [handles EXCEPT ![writers[Len(writers)].h].closes = @ + 1]
     ELSE UNCHANGED << writers, handles >>
  /\ pc' = "open"
  /\ UNCHANGED << config, scanv, loopv, tick, accessed, diskv, counts, written, error,
                  closing, outcome >>

\* lines 198-204: at capacity, pop the first entry of the OrderedDict and call
\* close on its writer.  Whether the call returns or raises, the except clause
\* lets the run go on the same way, and nothing in the program records which.
Evict ==
  /\ pc = "evict"
  /\ IF Len(writers) >= max_open_writers
     THEN /\ writers' = Tail(writers)
          /\ handles' = [handles EXCEPT ![Head(writers).h].closes = @ + 1]
     ELSE UNCHANGED << writers, handles >>
  /\ pc' = "open"
  /\ UNCHANGED << config, scanv, loopv, tick, accessed, diskv, counts, written, error,
                  closing, outcome >>

\* lines 206-213: pq.ParquetWriter creates (or truncates) the file at the path;
\* the new writer enters the pool at the most-recently-used end
OpenWriter ==
  /\ pc = "open"
  /\ handles' = Append(handles, [key |-> << coin, m >>, closes |-> 0, failed |-> FALSE])
  /\ files' = [files EXCEPT ![<< coin, m >>] = [exists |-> TRUE, rows |-> << >>]]
  /\ writers' = Append(writers, [key |-> << coin, m >>, h |-> Len(handles) + 1])
  /\ writer' = Len(handles) + 1
  /\ tick' = tick + 1
  /\ accessed' = [accessed EXCEPT ![<< coin, m >>] = tick + 1]
  /\ start' = 0
  /\ pc' = "write"
  /\ UNCHANGED << config, scanv, tbl, coins, coin, c_tbl, months, uniq_months, m, cm_tbl,
                  w0, dirs, counts, written, error, closing, outcome >>

\* the writer cannot be opened
OpenError ==
  /\ pc = "open"
  /\ Leave("OpenError")

\* ---- lines 250-254: write the sub-batch, in slices if it is too long ----
\* WriteRows that takes the rows at the same positions from the coin's table
WriteRowsOfCoin(rows) ==
  /\ written' = Append(written, [h |-> writer, key |-> handles[writer].key,
                                 rows |-> SubSeq(c_tbl, 1, Len(rows))])
  /\ files' = [files EXCEPT ![handles[writer].key].rows = @ \o SubSeq(c_tbl, 1, Len(rows))]

\* one write_table call: the rows go to the file the writer is bound to
WriteRows(rows) ==
  /\ written' = Append(written, [h |-> writer, key |-> handles[writer].key, rows |-> rows])
  /\ files' = [files EXCEPT ![handles[writer].key].rows = @ \o rows]

\* WriteSlice that walks the slices of a long sub-batch from the last to the first
WriteSliceBackwards ==
  /\ pc = "write"
  /\ IF Len(cm_tbl) > row_group_size
     THEN /\ WriteRows(Slice(cm_tbl,
                 ((Len(cm_tbl) - 1) \div row_group_size) * row_group_size - start,
                 row_group_size))
          /\ start' = start + row_group_size
          /\ pc' = IF start + row_group_size < Len(cm_tbl) THEN "write" ELSE "count"
     ELSE /\ WriteRows(cm_tbl)
          /\ UNCHANGED start
          /\ pc' = "count"
  /\ UNCHANGED << config, scanv, tbl, coins, coin, c_tbl, months, uniq_months, m, cm_tbl,
                  w0, writer, poolv, dirs, counts, error, closing, outcome >>

\* lines 249-254: one pass of the slice loop, or the single write of a short
\* sub-batch
WriteSlice ==
  /\ pc = "write"
  /\ IF Len(cm_tbl) > row_group_size
     THEN /\ WriteRows(Slice(cm_tbl, start, row_group_size))
          /\ start' = start + row_group_size
          /\ pc' = IF start + row_group_size < Len(cm_tbl) THEN "write" ELSE "count"
     ELSE /\ WriteRows(cm_tbl)
          /\ UNCHANGED start
          /\ pc' = "count"
  /\ UNCHANGED << config, scanv, tbl, coins, coin, c_tbl, months, uniq_months, m, cm_tbl,
                  w0, writer, poolv, dirs, counts, error, closing, outcome >>

\* a write fails
WriteError ==
  /\ pc = "write"
  /\ Leave("WriteError")

\* Count that stores the sub-batch's size instead of adding it
CountOverwrites ==
  /\ pc = "count"
  /\ counts' = IF << coin, m >> \in DOMAIN counts
               THEN [counts EXCEPT ![<< coin, m >>] = Len(cm_tbl)]
               ELSE counts @@ (<< coin, m >> :> Len(cm_tbl))
  /\ Advance(tbl, coins, coin, c_tbl, months, uniq_months)
  /\ UNCHANGED << config, scanv, poolv, diskv, written, error, closing, outcome >>

\* line 256, then on to the next sub-batch
Count ==
  /\ pc = "count"
  /\ counts' = IF << coin, m >> \in DOMAIN counts
               THEN [counts EXCEPT ![<< coin, m >>] = @ + Len(cm_tbl)]
               ELSE counts @@ (<< coin, m >> :> Len(cm_tbl))
  /\ Advance(tbl, coins, coin, c_tbl, months, uniq_months)
  /\ UNCHANGED << config, scanv, poolv, diskv, written, error, closing, outcome >>

\* CloseNext without the try/except: a failing close ends the loop and
\* becomes the exception in flight
CloseNextUnguarded ==
  /\ pc = "finally"
  /\ closing # << >>
  /\ \E ok \in BOOLEAN :
       /\ handles' = [handles EXCEPT ![Head(closing)] =
                        [@ EXCEPT !.closes = @ + 1, !.failed = ~ok]]
       /\ closing' = IF ok THEN Tail(closing) ELSE << >>
       /\ error' = IF ok THEN error ELSE "CloseError"
  /\ UNCHANGED << config, pc, scanv, loopv, writers, tick, accessed, diskv, counts,
                  written, outcome >>

\* lines 259-263: close the next remaining writer; a failing close is swallowed
CloseNext ==
  /\ pc = "finally"
  /\ closing # << >>
  /\ \E ok \in BOOLEAN :
       handles' = [handles EXCEPT ![Head(closing)] =
                     [@ EXCEPT !.closes = @ + 1, !.failed = ~ok]]
  /\ closing' = Tail(closing)
  /\ UNCHANGED << config, pc, scanv, loopv, writers, tick, accessed, diskv, counts,
                  written, error, outcome >>

\* Finish with the return inside the finally block: it discards the exception
FinishReturnsAlways ==
  /\ pc = "finally"
  /\ closing = << >>
  /\ outcome' = [kind |-> "return", value |-> counts]
  /\ pc' = "done"
  /\ UNCHANGED << config, scanv, loopv, poolv, diskv, counts, written, error, closing >>

\* line 265, or the end of the finally block with an exception in flight: counts
\* is returned, or the exception propagates
Finish ==
  /\ pc = "finally"
  /\ closing = << >>
  /\ outcome' = IF error # Null THEN [kind |-> "raise", value |-> error]
                ELSE [kind |-> "return", value |-> counts]
  /\ pc' = "done"
  /\ UNCHANGED << config, scanv, loopv, poolv, diskv, counts, written, error, closing >>

Next ==
  \/ ConfigError \/ Configure
  \/ ScanRow \/ NextBatch \/ EndOfScan \/ ScanError
  \/ CastError \/ MonthError
  \/ WriterForHit \/ WriterForMiss \/ Evict \/ OpenWriter \/ OpenError
  \/ WriteSlice \/ WriteError \/ Count
  \/ CloseNext \/ Finish

Spec == Init /\ [][Next]_vars

\* ---- two calls in a row (scripts/test.py run twice) ----
\* After a call that returned, the same call is made again: same arguments, same
\* in_dir, and out_dir as the first call left it.  The second call reads the
\* batches the first one read.  Its writers, its write log and its access
\* ticks are its own.
CallAgain ==
  /\ pc = "done"
  /\ run = 1
  /\ outcome.kind = "return"
  /\ run' = 2
  /\ first' = [summary |-> outcome.value, files |-> files, dirs |-> dirs]
  /\ replay' = batches
  /\ admitted' = 0
  /\ handles' = << >>
  /\ written' = << >>
  /\ tick' = 0
  /\ accessed' = [k \in Keys |-> 0]
  /\ error' = Null
  /\ outcome' = [kind |-> "none", value |-> Null]
  /\ pc' = "start"
  /\ UNCHANGED << max_open_writers, row_group_size, overwrite, in_dir_exists, matched,
                  out_dir_exists, cast_in, single, rec_batch, batches, loopv, writers,
                  diskv, counts, closing >>

\* two calls with overwrite on an input that exists, nothing failing; the row
\* groups are of the largest size
InitTwice ==
  Start(1) /\ overwrite /\ in_dir_exists /\ matched /\ row_group_size = MaxRowGroup

NextTwice ==
  \/ Configure \/ ScanRow \/ NextBatch \/ EndOfScan
  \/ WriterForHit \/ WriterForMiss \/ Evict \/ OpenWriter
  \/ WriteSlice \/ Count
  \/ CloseNext \/ Finish
  \/ CallAgain

SpecTwice == InitTwice /\ [][NextTwice]_vars

\* ---- split_asset_ctxs_by_coin_single (lines 269-315) ----
\* the file_glob of the call: the default pattern, or the name of one file
FileGlobs == {"*.parquet", "all.parquet"}

\* a file already at out_dir/<coin>.parquet before the call
Stale == [exists |-> TRUE,
          rows |-> << [id |-> 0, coin |-> "BTC", time |-> "2024-01-15 09:30",
                       funding |-> "0.5", date |-> "2024-01-15"] >>]

\* the batches of a dataset: its rows, cut after every row i with cuts[i]
RECURSIVE Split(_, _)
Split(rs, cuts) ==
  IF rs = << >> THEN << >>
  ELSE LET k == CHOOSE i \in 1..Len(rs) :
                  /\ cuts[i] \/ i = Len(rs)
                  /\ \A j \in 1..(i - 1) : ~cuts[j]
       IN << SubSeq(rs, 1, k) >> \o
          Split(SubSeq(rs, k + 1, Len(rs)), SubSeq(cuts, k + 1, Len(cuts)))

RECURSIVE Flatten(_)
Flatten(parts) == IF parts = << >> THEN << >> ELSE Head(parts) \o Flatten(Tail(parts))

\* the call is made on a dataset of up to MaxSingleRows rows in some batches;
\* out_dir may hold files of an earlier call
InitSingle ==
  /\ max_open_writers = 1
  /\ row_group_size = 1
  /\ overwrite \in BOOLEAN
  /\ in_dir_exists = TRUE
  /\ matched = TRUE
  /\ out_dir_exists \in BOOLEAN
  /\ cast_in = [schema |-> TargetSchema, rows |-> << >>]
  /\ run = 0
  /\ first = [summary |-> << >>, files |-> [k \in Keys |-> NoFile], dirs |-> {}]
  /\ file_glob \in FileGlobs
  /\ required_non_null \in {{"coin", "time"}, {"coin"}}
  /\ coin_files \in [Coins -> {NoFile, Stale}]
  /\ pc = "single_start"
  /\ Fresh
  /\ \E n \in 0..MaxSingleRows : \E rs \in [1..n -> RawRows] : \E cuts \in [1..n -> BOOLEAN] :
       /\ n >= 1 => cuts[n]
       /\ batches = Split([i \in 1..n |->
                             [id |-> i, coin |-> rs[i].coin, time |-> rs[i].time,
                              funding |-> rs[i].funding, date |-> rs[i].date]], cuts)
       /\ replay = batches

\* lines 282-289: out_dir is made and the dataset is built on the string
\* in_dir / file_glob.  ds.dataset takes the string for the path of a file or of
\* a directory and expands no pattern (line 162 says so of the other function):
\* with a pattern there is no such path and it raises FileNotFoundError.
OpenDataset ==
  /\ pc = "single_start"
  /\ out_dir_exists' = TRUE
  /\ IF file_glob = "*.parquet"
     THEN /\ error' = "DatasetNotFound"
          /\ outcome' = [kind |-> "raise", value |-> "DatasetNotFound"]
          /\ pc' = "done"
     ELSE /\ pc' = "single_scan"
          /\ UNCHANGED << error, outcome >>
  /\ tables_by_coin' = << >>
  /\ UNCHANGED << max_open_writers, row_group_size, overwrite, in_dir_exists, matched,
                  cast_in, run, first, file_glob, required_non_null, coin_files,
                  scanv, loopv, poolv, diskv, counts, written, closing >>

\* tables_by_coin.setdefault(c, []).append(ct) for the coins cs of a batch t
RECURSIVE AppendParts(_, _, _)
AppendParts(tbc, t, cs) ==
  IF cs = << >> THEN tbc
  ELSE LET c == Head(cs)
           ct == Filter(t.rows, [i \in DOMAIN t.rows |-> Equal(t.rows[i].coin, c)])
           at == {i \in DOMAIN tbc : tbc[i].coin = c}
           next == IF Len(ct) = 0 THEN tbc
                   ELSE IF at = {} THEN Append(tbc, [coin |-> c, parts |-> << ct >>])
                   ELSE [tbc EXCEPT ![CHOOSE i \in at : TRUE].parts = Append(@, ct)]
       IN AppendParts(next, t, Tail(cs))

\* lines 291-308: one batch: keep the rows whose required columns are all
\* valid, skip the batch if none is left, cast, and file the rows by coin
SingleBatch ==
  /\ pc = "single_scan"
  /\ replay # << >>
  /\ \E ty \in DateTypes :
       LET b == Head(replay)
           kept == Filter(b, [i \in DOMAIN b |->
                     IF \A col \in required_non_null : b[i][col] # Null
                     THEN "true" ELSE "false"])
           t == _cast_to_schema([schema |-> InputSchema(ty), rows |-> kept])
       IN tables_by_coin' =
            IF Len(kept) = 0 THEN tables_by_coin
            ELSE AppendParts(tables_by_coin, t, Unique(Column(t.rows, "coin")))
  /\ replay' = Tail(replay)
  /\ UNCHANGED << max_open_writers, row_group_size, overwrite, in_dir_exists, matched,
                  out_dir_exists, cast_in, run, first, file_glob, required_non_null,
                  coin_files, admitted, rec_batch, batches, pc, loopv, poolv, diskv,
                  counts, written, error, closing, outcome >>

\* lines 310-315, after the last batch: for every coin of tables_by_coin the
\* parts are concatenated, a file at the path is unlinked under overwrite, and
\* pq.write_table writes the file anew
SingleWrite ==
  /\ pc = "single_scan"
  /\ replay = << >>
  /\ coin_files' =
       [c \in Coins |->
          IF \E i \in DOMAIN tables_by_coin : tables_by_coin[i].coin = c
          THEN [exists |-> TRUE,
                rows |-> Flatten(tables_by_coin[CHOOSE i \in DOMAIN tables_by_coin :
                                                  tables_by_coin[i].coin = c].parts)]
          ELSE coin_files[c]]
  /\ outcome' = [kind |-> "return", value |-> Null]
  /\ pc' = "done"
  /\ UNCHANGED << max_open_writers, row_group_size, overwrite, in_dir_exists, matched,
                  out_dir_exists, cast_in, run, first, file_glob, required_non_null,
                  tables_by_coin, scanv, loopv, poolv, diskv, counts, written, error,
                  closing >>

NextSingle == OpenDataset \/ SingleBatch \/ SingleWrite

SpecSingle == InitSingle /\ [][NextSingle]_vars

(***************************************************************************)
(* The claims                                                              *)
(***************************************************************************)

\* C1 (pool bound): in every reachable state the number of writers that have
\* been opened and not yet had close called on them is at most
\* max_open_writers, the state between eviction and opening included.
C1_PoolBound == Cardinality(OpenHandles) <= max_open_writers

\* C1 witness: between evicting the old writer and opening the new one, in a
\* pool of capacity 2 or more that was full
C1_Witness ==
  /\ pc = "open"
  /\ max_open_writers >= 2
  /\ Len(handles) >= max_open_writers
  /\ Cardinality(OpenHandles) = max_open_writers - 1
  /\ \E h \in DOMAIN handles : handles[h].closes = 1

RECURSIVE SumCounts(_)
SumCounts(c) ==
  IF DOMAIN c = {} THEN 0
  ELSE LET k == CHOOSE x \in DOMAIN c : TRUE
       IN c[k] + SumCounts([x \in DOMAIN c \ {k} |-> c[x]])

\* C2 (partition completeness): when the run returns, the row counts of the
\* summary add up to the number of input rows with non-null coin and non-null
\* time, whatever their date.
C2_PartitionCompleteness ==
  (pc = "done" /\ outcome.kind = "return") => SumCounts(outcome.value) = admitted

C4_SummaryMatchesFiles ==
  (pc = "done" /\ outcome.kind = "return" /\ overwrite) =>
    \A k \in DOMAIN outcome.value :
      files[k].exists /\ Len(files[k].rows) = outcome.value[k]

\* C5 (closed exactly once): no writer ever gets a second close call, and when
\* the call has ended, by return or by exception, every writer created during
\* the run has had exactly one.
C5_ClosedExactlyOnce ==
  /\ \A h \in DOMAIN handles : handles[h].closes <= 1
  /\ pc = "done" => \A h \in DOMAIN handles : handles[h].closes = 1

\* C5 witness: a run that failed after an eviction, with a writer still in the
\* pool: one writer closed by eviction, another by the cleanup
C5_Witness ==
  /\ pc = "done"
  /\ outcome.kind = "raise"
  /\ writers # << >>
  /\ Len(handles) > Len(writers)
  /\ \A h \in DOMAIN handles : handles[h].closes = 1

\* C6 (cleanup on failure): an exception raised in the batch loop stays the
\* exception in flight through the finally block, and when the call ends it is
\* that exception that reaches the caller, with every writer closed.
C6_CleanupOnFailure ==
  [][/\ error # Null => error' = error
     /\ (pc' = "done" /\ error # Null) =>
          /\ outcome' = [kind |-> "raise", value |-> error]
          /\ \A h \in DOMAIN handles' : handles'[h].closes >= 1]_vars

\* C6 witness: an exception reached the caller after two writers that were open
\* when it was raised had been closed, the close of one of them failing
C6_Witness ==
  /\ pc = "done"
  /\ outcome.kind = "raise"
  /\ Len(writers) >= 2
  /\ \E i \in DOMAIN writers : handles[writers[i].h].failed
  /\ \A i \in DOMAIN writers : handles[writers[i].h].closes = 1

\* C7 (best-effort teardown): when the call has ended, every writer left in the
\* pool has had its close attempt, whichever closes failed, and a run whose
\* loop raised nothing has returned counts.
C7_BestEffortTeardown ==
  pc = "done" =>
    /\ \A i \in DOMAIN writers : handles[writers[i].h].closes >= 1
    /\ error = Null => outcome = [kind |-> "return", value |-> counts]

\* C7 witness: the summary was returned although the first close of the
\* cleanup failed, and the writer after it was closed all the same
C7_Witness ==
  /\ pc = "done"
  /\ outcome.kind = "return"
  /\ DOMAIN outcome.value # {}
  /\ Len(writers) >= 2
  /\ handles[writers[1].h].failed
  /\ handles[writers[2].h].closes = 1

\* C8 (re-open after eviction): when a key that had a writer before is absent
\* from the pool and requested again, a file at its path is deleted if
\* overwrite is set, and the open step creates a new writer (no earlier handle)
\* on an empty file at that path and puts the key at the most-recently-used end.
C8_ReopenAfterEviction ==
  [][(\E h \in DOMAIN handles : handles[h].key = << coin, m >>) =>
       /\ (pc = "writer_for" /\ pc' = "evict" /\ overwrite) =>
            ~files'[<< coin, m >>].exists
       /\ (pc = "open" /\ pc' = "write") =>
            /\ writer' \notin DOMAIN handles
            /\ handles' = Append(handles, [key |-> << coin, m >>, closes |-> 0,
                                           failed |-> FALSE])
            /\ writer' = Len(handles')
            /\ files'[<< coin, m >>] = [exists |-> TRUE, rows |-> << >>]
            /\ writers'[Len(writers')] = [key |-> << coin, m >>, h |-> writer']
            /\ Len(writers') = Len(writers) + 1]_vars

\* C8 witness: a key whose earlier writer was evicted, after rows had been
\* written through it, has just been opened again
C8_Witness ==
  /\ pc = "write"
  /\ start = 0
  /\ overwrite
  /\ \E i \in DOMAIN written :
       /\ written[i].key = << coin, m >>
       /\ written[i].h # writer
       /\ handles[written[i].h].closes = 1
  /\ writer = Len(handles)
  /\ files[<< coin, m >>].rows = << >>

RECURSIVE Concat(_)
Concat(evs) == IF evs = << >> THEN << >> ELSE Head(evs).rows \o Concat(Tail(evs))

\* C9 (row-group slicing): once a sub-batch of n rows is written, the writes
\* made for it went to its writer, are 1 for n <= row_group_size and
\* ceil(n / row_group_size) otherwise, are each of row_group_size rows except
\* the last, which has the rest, and together are the sub-batch in row order.
C9_RowGroupSlicing ==
  pc = "count" =>
    LET n == Len(cm_tbl)
        evs == SubSeq(written, w0 + 1, Len(written))
        k == Len(evs)
    IN /\ n >= 1
       /\ k = IF n > row_group_size
              THEN (n + row_group_size - 1) \div row_group_size ELSE 1
       /\ \A i \in 1..k : evs[i].h = writer
       /\ \A i \in 1..(k - 1) : Len(evs[i].rows) = row_group_size
       /\ Len(evs[k].rows) = n - (k - 1) * row_group_size
       /\ Len(evs[k].rows) >= 1
       /\ Concat(evs) = cm_tbl

\* C9 witness: a sub-batch longer than a row group, and not a multiple of it,
\* is written
C9_Witness ==
  /\ pc = "count"
  /\ Len(cm_tbl) > row_group_size
  /\ Len(cm_tbl) % row_group_size # 0
  /\ Len(written) - w0 >= 2

\* the rows written for key k so far, in the order of the write_table calls
RowsWritten(k) == Concat(SelectSeq(written, LAMBDA e : e.key = k))

\* C10 (append order): for every key, the rows written for it so far appear in
\* the order of the scan: their ids increase.
C10_AppendOrder ==
  \A k \in Keys :
    LET rs == RowsWritten(k)
    IN \A i, j \in DOMAIN rs : i < j => rs[i].id < rs[j].id

\* C10 witness: a key has rows from two batches, two of them from one batch
C10_Witness ==
  \E i, j \in DOMAIN written :
    /\ i < j
    /\ written[i].key = written[j].key
    /\ Len(written[j].rows) >= 2

\* C11 (configuration errors): a call whose in_dir does not exist ends with the
\* missing-input-directory error, and one whose in_dir has no matching file with
\* the no-files-matched error; no row was read, no writer was opened, nothing
\* was counted and no summary came back.
C11_ConfigurationErrors ==
  (pc # "start" /\ ~(in_dir_exists /\ matched)) =>
    /\ pc = "done"
    /\ outcome = [kind |-> "raise",
                  value |-> IF ~in_dir_exists THEN "InputDirMissing" ELSE "NoFilesMatched"]
    /\ admitted = 0 /\ rec_batch = << >>
    /\ handles = << >> /\ writers = << >> /\ written = << >>
    /\ counts = << >>

\* C11 witness: the call has failed on an in_dir that exists and has no match
C11_Witness ==
  /\ pc = "done"
  /\ in_dir_exists /\ ~matched
  /\ outcome = [kind |-> "raise", value |-> "NoFilesMatched"]
  /\ handles = << >>

\* C19 (no output on configuration error): a call that ends on a configuration
\* error leaves out_dir as it was before the call: no directory and no file
\* created, deleted or modified.
C19_NoOutputOnConfigError ==
  [][(pc = "start" /\ pc' = "done") =>
       /\ out_dir_exists' = out_dir_exists
       /\ files' = files
       /\ dirs' = dirs]_vars

\* C14 (partition key derivation): when the run returns, every row the scan
\* filter let through has been written under the key made of its coin and of
\* the month of its date, or of its time when it has no date.
C14_PartitionKeyDerivation ==
  (pc = "done" /\ outcome.kind = "return") =>
    \A i \in 1..admitted :
      \E j \in DOMAIN written : \E n \in DOMAIN written[j].rows :
        LET r == written[j].rows[n]
        IN /\ r.id = i
           /\ written[j].key =
                << r.coin, MonthOf(IF r.date # Null THEN r.date ELSE r.time) >>

\* C15 (routing correctness): every write went through the writer of its key,
\* every row written has the coin of that key and a date in the month of that
\* key, and no row of the scan was written twice.
C15_RoutingCorrectness ==
  /\ \A j \in DOMAIN written :
       /\ handles[written[j].h].key = written[j].key
       /\ \A n \in DOMAIN written[j].rows :
            /\ written[j].rows[n].coin = written[j].key[1]
            /\ MonthOf(written[j].rows[n].date) = written[j].key[2]
  /\ \A j1, j2 \in DOMAIN written :
       \A n1 \in DOMAIN written[j1].rows : \A n2 \in DOMAIN written[j2].rows :
         written[j1].rows[n1].id = written[j2].rows[n2].id => (j1 = j2 /\ n1 = n2)

\* C15 witness: one batch held rows of one coin in two months, and both
\* sub-batches have been written, each under its own key
C15_Witness ==
  /\ pc = "count"
  /\ w0 >= 1
  /\ written[w0].key[1] = coin
  /\ written[w0].key[2] # m
  /\ \E i \in DOMAIN c_tbl : c_tbl[i] = written[w0].rows[1]

\* C16 (pool hit): a request for a key of the pool returns the writer stored for
\* it and puts the key at the most-recently-used end; the other entries keep
\* their order, and no writer is created or closed and no file or directory
\* touched.
C16_PoolHit ==
  [][(pc = "writer_for" /\ << coin, m >> \in PoolKeys) =>
       LET i == PoolIndex(<< coin, m >>)
       IN /\ writer' = writers[i].h
          /\ Len(writers') = Len(writers)
          /\ writers'[Len(writers')] = writers[i]
          /\ SubSeq(writers', 1, Len(writers') - 1) = Remove(writers, i)
          /\ handles' = handles
          /\ files' = files
          /\ dirs' = dirs]_vars

\* C16 witness: a hit on a key that was not the most recently used: the writer
\* returned is older than the one it has moved behind
C16_Witness ==
  /\ pc = "write"
  /\ start = 0
  /\ Len(writers) >= 2
  /\ writers[Len(writers)].h = writer
  /\ writer < writers[Len(writers) - 1].h

\* C17 (count accounting): a key of the counts has had rows written; between
\* sub-batches the count of every key is the number of rows written for the key
\* so far, over all its writers; and no count ever decreases or disappears.
C17_CountAccounting ==
  /\ [](\A k \in DOMAIN counts : RowsWritten(k) # << >>)
  /\ [](pc \in {"scan", "writer_for"} =>
          \A k \in DOMAIN counts : counts[k] = Len(RowsWritten(k)))
  /\ [][\A k \in DOMAIN counts : k \in DOMAIN counts' /\ counts'[k] >= counts[k]]_vars

\* C17 witness: a key has been counted over two writers
C17_Witness ==
  /\ pc = "scan"
  /\ \E k \in DOMAIN counts :
       /\ counts[k] >= 2
       /\ \E h1, h2 \in DOMAIN handles :
            h1 # h2 /\ handles[h1].key = k /\ handles[h2].key = k

\* C18 (step order): a request for an absent key that finds the pool at capacity
\* begins with the eviction: the least recently used entry leaves the pool and
\* its writer is closed while no directory and no file has been touched yet.
C18_StepOrder ==
  [][(pc = "writer_for" /\ << coin, m >> \notin PoolKeys
        /\ Len(writers) >= max_open_writers) =>
       /\ writers' = Tail(writers)
       /\ handles'[Head(writers).h].closes = 1
       /\ dirs' = dirs
       /\ files' = files]_vars

\* the values of a target type
TypedValues(ty) ==
  CASE ty = "timestamp[ns]" -> Times \cup {Null}
    [] ty = "string" -> Coins \cup {Null}
    [] ty = "float" -> Fundings \cup {Null}
    [] ty = "date32" -> Dates \cup {Null}

\* C13 (schema conformance): a table that _cast_to_schema returns has the target
\* schema's fields in the target's order, as many rows as the input, in every
\* row exactly the target's columns, each holding a value of its target type,
\* and null where the input had no column of that name.
C13_SchemaConformance ==
  pc = "cast_done" =>
    /\ tbl.schema = TargetSchema
    /\ Len(tbl.rows) = Len(cast_in.rows)
    /\ \A i \in DOMAIN tbl.rows :
         /\ DOMAIN tbl.rows[i] = TargetNames \cup {"id"}
         /\ tbl.rows[i].id = cast_in.rows[i].id
         /\ \A k \in DOMAIN TargetSchema :
              /\ tbl.rows[i][TargetSchema[k].name] \in TypedValues(TargetSchema[k].type)
              /\ TargetSchema[k].name \notin Names(cast_in) =>
                   tbl.rows[i][TargetSchema[k].name] = Null

\* C13 witness: a table with an extra column, no date column and its time as
\* strings has been cast, its one row's time parsed
C13_Witness ==
  /\ pc = "cast_done"
  /\ "extra" \in Names(cast_in)
  /\ "date" \notin Names(cast_in)
  /\ "time" \in Names(cast_in)
  /\ TypeOf(cast_in, "time") = "string"
  /\ Len(tbl.rows) = 1
  /\ tbl.rows[1].time \in Times
  /\ tbl.rows[1].date = Null

\* C12 (idempotent overwrite): a second call with overwrite, on the same input
\* and on the output directory as the first call left it, returns the summary
\* the first call returned and leaves the files and directories the first call
\* left, with the same rows.
C12_IdempotentOverwrite ==
  (run = 2 /\ pc = "done" /\ outcome.kind = "return") =>
    /\ outcome.value = first.summary
    /\ files = first.files
    /\ dirs = first.dirs

\* C12 witness: a second call has returned after opening a key twice, over
\* files the first call had left
C12_Witness ==
  /\ run = 2
  /\ pc = "done"
  /\ outcome.kind = "return"
  /\ \E k \in DOMAIN outcome.value : outcome.value[k] >= 2
  /\ \E h1, h2 \in DOMAIN handles : h1 # h2 /\ handles[h1].key = handles[h2].key

\* the ids of the rows of coin c, among the rows of the dataset, that have all
\* the required columns valid, in the order of the scan
Qualifying(c) ==
  SelectSeq(Flatten(batches),
            LAMBDA r : r.coin = c /\ \A col \in required_non_null : r[col] # Null)

\* C20 (single-file variant): when split_asset_ctxs_by_coin_single has ended,
\* every coin with a row of the dataset whose required columns are all valid
\* has its file out_dir/<coin>.parquet, holding exactly those rows of the coin
\* in scan order, and no file written by the call holds any other row.
C20_SingleFileVariant ==
  pc = "done" =>
    \A c \in Coins :
      Qualifying(c) # << >> =>
        /\ coin_files[c].exists
        /\ [i \in DOMAIN coin_files[c].rows |-> coin_files[c].rows[i].id]
             = [i \in DOMAIN Qualifying(c) |-> Qualifying(c)[i].id]

====
